---- MODULE Spec2Model ----
(***************************************************************************)
(* Model of terraform-provider-nsxt-intervlan-routing: the segment-port    *)
(* REST client (package client) and the resource / data-source adapters    *)
(* (package provider) that drive it.                                       *)
(*                                                                         *)
(* Text is modelled as a sequence of tokens (a token is one character or   *)
(* one fixed piece of text), so that URL building and JSON string          *)
(* encoding are real conversions and not the identity.                     *)
(***************************************************************************)
EXTENDS Integers, Sequences, FiniteSets, TLC

VARIABLES
    apiClient,  \* the client.Client built by NewClient (fixed after construction)
    rClient,    \* segmentPortResource.client : "nil" or "set" (points to apiClient)
    dClient,    \* segmentPortsDataSource.client : "nil" or "set"
    state,      \* tracked state of the resource instance (NoState when absent)
    server,     \* the remote store: URL -> stored body, Absent or Deleted
    last,       \* the last call: its inputs, the request, the response, resp.Diagnostics
    globals     \* the package-level variables of package provider: Client, Auth, Host

vars == <<apiClient, rClient, dClient, state, server, last, globals>>

----------------------------------------------------------------------------
(* Bounds of the model *)

\* longest list of request editors (client-level, and per call)
MaxEditors == 2
\* longest `results` array in a list response
MaxResults == 2

----------------------------------------------------------------------------
(* Text *)

Empty == <<>>

\* tokens with a meaning in a URL reference
QuestionMark == "?"
Percent == "%"

\* the member of a set of one: The({F(x) : x \in {e}}) is F(e) with e worked out once
The(S) == CHOOSE x \in S : TRUE

\* index of the first occurrence of token c in s, 0 when there is none
IndexOf(s, c) ==
    IF \E i \in 1..Len(s) : s[i] = c
    THEN CHOOSE i \in 1..Len(s) : s[i] = c /\ \A j \in 1..(i-1) : s[j] # c
    ELSE 0

----------------------------------------------------------------------------
(* The entity: client.SegmentPort and its parts *)

Nil == "nil"

ZeroBinding == [IpAddress |-> Empty, MacAddress |-> Empty, VlanId |-> Empty]

ZeroAttachment ==
    [AllocateAddresses |-> Empty, AppId |-> Empty, ContextId |-> Empty,
     Id |-> Empty, TrafficTag |-> Empty, Type |-> Empty]

\* the zero value of client.SegmentPort (what `var newSegmentPort client.SegmentPort` holds)
ZeroSegmentPort ==
    [AddressBindings |-> ZeroBinding, AdminState |-> Empty,
     Attachment |-> ZeroAttachment, Description |-> Empty,
     DisplayName |-> Empty, Id |-> Empty, ResourceType |-> Empty]

\* a PARENT port, as in examples/provider/provider.tf
ParentPort ==
    [AddressBindings |-> ZeroBinding,
     AdminState |-> <<"UP">>,
     Attachment |-> [AllocateAddresses |-> Empty, AppId |-> Empty, ContextId |-> Empty,
                     Id |-> <<"vif-1">>, TrafficTag |-> Empty, Type |-> <<"PARENT">>],
     Description |-> Empty,
     DisplayName |-> <<"parent">>,
     Id |-> <<"parent">>,
     ResourceType |-> <<"SegmentPort">>]

\* a CHILD port with one address binding; its texts hold characters that JSON escapes
ChildPort ==
    [AddressBindings |-> [IpAddress |-> <<"169.254.254.169">>,
                          MacAddress |-> <<"00:50:56:ad:5e:64">>,
                          VlanId |-> <<"1001">>],
     AdminState |-> <<"DOWN">>,
     Attachment |-> [AllocateAddresses |-> Empty, AppId |-> <<"app">>,
                     ContextId |-> <<"vif-1">>, Id |-> <<"vif-2">>,
                     TrafficTag |-> <<"1001">>, Type |-> <<"CHILD">>],
     Description |-> <<"a", "<", "b", "\"">>,
     DisplayName |-> <<"child">>,
     Id |-> <<"child", "<", "1">>,
     ResourceType |-> <<"SegmentPort">>]

\* the entities a plan may hold
Ports == {ParentPort, ChildPort}

----------------------------------------------------------------------------
(* encoding/json, as far as the client and the adapters use it *)

JStr(s) == [k |-> "str", s |-> s]
JObj(o) == [k |-> "obj", o |-> o]
JArr(a) == [k |-> "arr", a |-> a]
JNull == [k |-> "null"]

\* json.Marshal writes a string character by character, escaping the quote, the
\* backslash and (escapeHTML) the angle brackets
EscapeToken(c) ==
    CASE c = "\"" -> "\\\""
      [] c = "\\" -> "\\\\"
      [] c = "<" -> "\\u003c"
      [] c = ">" -> "\\u003e"
      [] OTHER -> c

UnescapeToken(t) ==
    CASE t = "\\\"" -> "\""
      [] t = "\\\\" -> "\\"
      [] t = "\\u003c" -> "<"
      [] t = "\\u003e" -> ">"
      [] OTHER -> t

EncodeString(s) == JStr([i \in 1..Len(s) |-> EscapeToken(s[i])])

DecodeString(j) == [i \in 1..Len(j.s) |-> UnescapeToken(j.s[i])]

MarshalBinding(b) ==
    JObj([ip_address |-> EncodeString(b.IpAddress),
          mac_address |-> EncodeString(b.MacAddress),
          vlan_id |-> EncodeString(b.VlanId)])

MarshalAttachment(a) ==
    JObj([allocate_addresses |-> EncodeString(a.AllocateAddresses),
          app_id |-> EncodeString(a.AppId),
          context_id |-> EncodeString(a.ContextId),
          id |-> EncodeString(a.Id),
          traffic_tag |-> EncodeString(a.TrafficTag),
          type |-> EncodeString(a.Type)])

\* a marshalling that leaves resource_type out, as a `json:"-"` tag would
MarshalSegmentPortUntyped(sp) ==
    JObj([address_bindings |-> MarshalBinding(sp.AddressBindings),
          admin_state |-> EncodeString(sp.AdminState),
          attachment |-> MarshalAttachment(sp.Attachment),
          description |-> EncodeString(sp.Description),
          display_name |-> EncodeString(sp.DisplayName),
          id |-> EncodeString(sp.Id)])

\* json.Marshal(body.SegmentPort): every field is written, none is omitted
MarshalSegmentPort(sp) ==
    JObj([address_bindings |-> MarshalBinding(sp.AddressBindings),
          admin_state |-> EncodeString(sp.AdminState),
          attachment |-> MarshalAttachment(sp.Attachment),
          description |-> EncodeString(sp.Description),
          display_name |-> EncodeString(sp.DisplayName),
          id |-> EncodeString(sp.Id),
          resource_type |-> EncodeString(sp.ResourceType)])

\* a member of a JSON object decoded into a Go string field: a missing member and
\* null leave the field alone, anything but a string is a type error
StringField(o, key, old) ==
    IF key \notin DOMAIN o THEN [v |-> old, err |-> FALSE]
    ELSE CASE o[key].k = "str" -> [v |-> DecodeString(o[key]), err |-> FALSE]
           [] o[key].k = "null" -> [v |-> old, err |-> FALSE]
           [] OTHER -> [v |-> old, err |-> TRUE]

UnmarshalBinding(j, old) ==
    CASE j.k = "null" -> [v |-> old, err |-> FALSE]
      [] j.k = "obj" ->
            LET ip == StringField(j.o, "ip_address", old.IpAddress)
                mac == StringField(j.o, "mac_address", old.MacAddress)
                vlan == StringField(j.o, "vlan_id", old.VlanId)
            IN [v |-> [IpAddress |-> ip.v, MacAddress |-> mac.v, VlanId |-> vlan.v],
                err |-> ip.err \/ mac.err \/ vlan.err]
      [] OTHER -> [v |-> old, err |-> TRUE]

UnmarshalAttachment(j, old) ==
    CASE j.k = "null" -> [v |-> old, err |-> FALSE]
      [] j.k = "obj" ->
            LET alloc == StringField(j.o, "allocate_addresses", old.AllocateAddresses)
                app == StringField(j.o, "app_id", old.AppId)
                ctx == StringField(j.o, "context_id", old.ContextId)
                id == StringField(j.o, "id", old.Id)
                tag == StringField(j.o, "traffic_tag", old.TrafficTag)
                typ == StringField(j.o, "type", old.Type)
            IN [v |-> [AllocateAddresses |-> alloc.v, AppId |-> app.v,
                       ContextId |-> ctx.v, Id |-> id.v, TrafficTag |-> tag.v,
                       Type |-> typ.v],
                err |-> alloc.err \/ app.err \/ ctx.err \/ id.err \/ tag.err \/ typ.err]
      [] OTHER -> [v |-> old, err |-> TRUE]

\* a JSON value decoded into a client.SegmentPort that holds `old`
UnmarshalSegmentPort(j, old) ==
    CASE j.k = "null" -> [v |-> old, err |-> FALSE]
      [] j.k = "obj" ->
            LET ab == IF "address_bindings" \in DOMAIN j.o
                      THEN UnmarshalBinding(j.o["address_bindings"], old.AddressBindings)
                      ELSE [v |-> old.AddressBindings, err |-> FALSE]
                as == StringField(j.o, "admin_state", old.AdminState)
                at == IF "attachment" \in DOMAIN j.o
                      THEN UnmarshalAttachment(j.o["attachment"], old.Attachment)
                      ELSE [v |-> old.Attachment, err |-> FALSE]
                de == StringField(j.o, "description", old.Description)
                dn == StringField(j.o, "display_name", old.DisplayName)
                id == StringField(j.o, "id", old.Id)
                rt == StringField(j.o, "resource_type", old.ResourceType)
            IN [v |-> [AddressBindings |-> ab.v, AdminState |-> as.v,
                       Attachment |-> at.v, Description |-> de.v,
                       DisplayName |-> dn.v, Id |-> id.v, ResourceType |-> rt.v],
                err |-> ab.err \/ as.err \/ at.err \/ de.err \/ dn.err \/ id.err \/ rt.err]
      [] OTHER -> [v |-> old, err |-> TRUE]

\* a response body: a JSON document, text that is no JSON, or nothing
JsonBody(j) == [kind |-> "json", val |-> j]
MalformedBody == [kind |-> "malformed", val |-> JNull]
EmptyBody == [kind |-> "empty", val |-> JNull]

\* json.NewDecoder(body).Decode(&newSegmentPort)
DecodeSegmentPort(body) ==
    IF body.kind = "json" THEN UnmarshalSegmentPort(body.val, ZeroSegmentPort)
    ELSE [v |-> ZeroSegmentPort, err |-> TRUE]

\* the elements of `results` decoded one by one into a []client.SegmentPort
UnmarshalResults(a) ==
    [v |-> [i \in 1..Len(a) |-> UnmarshalSegmentPort(a[i], ZeroSegmentPort).v],
     err |-> \E i \in 1..Len(a) : UnmarshalSegmentPort(a[i], ZeroSegmentPort).err]

\* json.NewDecoder(body).Decode(&segmentPorts) into a ListSegmentPortsResponse
DecodeListResponse(body) ==
    IF body.kind # "json" THEN [v |-> <<>>, err |-> TRUE]
    ELSE CASE body.val.k = "null" -> [v |-> <<>>, err |-> FALSE]
           [] body.val.k = "obj" ->
                IF "results" \notin DOMAIN body.val.o THEN [v |-> <<>>, err |-> FALSE]
                ELSE CASE body.val.o["results"].k = "null" -> [v |-> <<>>, err |-> FALSE]
                       [] body.val.o["results"].k = "arr" ->
                            UnmarshalResults(body.val.o["results"].a)
                       [] OTHER -> [v |-> <<>>, err |-> TRUE]
           [] OTHER -> [v |-> <<>>, err |-> TRUE]

----------------------------------------------------------------------------
(* net/url and net/http, as far as the client uses them *)

\* url.Parse: a "%" that starts no escape is an error (no "%" of the model does);
\* the text after the first "?" is the query
ParseURL(ref) ==
    IF IndexOf(ref, Percent) # 0
    THEN [err |-> "invalid URL escape", path |-> Empty, hasQuery |-> FALSE, query |-> Empty]
    ELSE The({IF q = 0
              THEN [err |-> Nil, path |-> ref, hasQuery |-> FALSE, query |-> Empty]
              ELSE [err |-> Nil, path |-> SubSeq(ref, 1, q - 1), hasQuery |-> TRUE,
                    query |-> SubSeq(ref, q + 1, Len(ref))] :
              q \in {IndexOf(ref, QuestionMark)}})

\* serverURL.Parse(operationPath) of an absolute path, then queryURL.String():
\* scheme and host of the server, path and query of the reference
ResolveURL(serverText, operationPath) ==
    The({IF base.err # Nil THEN [err |-> base.err, url |-> Nil]
         ELSE IF ref.err # Nil THEN [err |-> ref.err, url |-> Nil]
         ELSE [err |-> Nil,
               url |-> [base |-> base.path, path |-> ref.path,
                        hasQuery |-> ref.hasQuery, query |-> ref.query]] :
         base \in {ParseURL(serverText)}, ref \in {ParseURL(operationPath)}})

\* req.SetBasicAuth(user, pass): the Authorization header, base64 of user:pass
BasicAuth(user, pass) == <<"Basic ">> \o user \o <<":">> \o pass

NoHeader == Empty
NoBody == EmptyBody

\* http.NewRequest(method, url, body)
NewRequest(method, url, body) ==
    [Method |-> method, URL |-> url, Authorization |-> NoHeader,
     ContentType |-> NoHeader, Body |-> body, Edits |-> <<>>]

StatusOK == 200
StatusNotFound == 404

\* http.StatusText, prefixed with the code as in Response.Status
StatusLine(code) ==
    CASE code = StatusOK -> "200 OK"
      [] code = 201 -> "201 Created"
      [] code = 204 -> "204 No Content"
      [] code = 401 -> "401 Unauthorized"
      [] code = StatusNotFound -> "404 Not Found"
      [] code = 500 -> "500 Internal Server Error"
      [] OTHER -> "unknown"

Response(code, body) == [StatusCode |-> code, Status |-> StatusLine(code), Body |-> body]

\* the nil *http.Response
NilResponse == [StatusCode |-> 0, Status |-> Nil, Body |-> EmptyBody]

----------------------------------------------------------------------------
(* package client: the request builders *)

SegmentsPath == <<"/policy/api/v1/infra/segments/">>

\* a builder that fills the path with its two ids the wrong way round
NewDeleteSegmentPortRequestSwapped(serverText, segment_id, port_id) ==
    The({IF queryURL.err # Nil THEN [req |-> Nil, err |-> queryURL.err]
        ELSE [req |-> NewRequest("DELETE", queryURL.url, NoBody), err |-> Nil] :
         queryURL \in {ResolveURL(serverText, SegmentsPath \o port_id \o <<"/ports/">> \o segment_id)}})

NewDeleteSegmentPortRequest(serverText, segment_id, port_id) ==
    The({IF queryURL.err # Nil THEN [req |-> Nil, err |-> queryURL.err]
        ELSE [req |-> NewRequest("DELETE", queryURL.url, NoBody), err |-> Nil] :
         queryURL \in {ResolveURL(serverText, SegmentsPath \o segment_id \o <<"/ports/">> \o port_id)}})

NewListSegmentPortsRequest(serverText, user, pass, segment_id) ==
    The({IF queryURL.err # Nil THEN [req |-> Nil, err |-> queryURL.err]
        ELSE [req |-> [NewRequest("GET", queryURL.url, NoBody)
                           EXCEPT !.Authorization = BasicAuth(user, pass)],
               err |-> Nil] :
         queryURL \in {ResolveURL(serverText, SegmentsPath \o segment_id \o <<"/ports">>)}})

\* a builder that forgets req.SetBasicAuth
NewGetSegmentPortRequestBare(serverText, user, pass, segment_id, port_id) ==
    The({IF queryURL.err # Nil THEN [req |-> Nil, err |-> queryURL.err]
        ELSE [req |-> NewRequest("GET", queryURL.url, NoBody), err |-> Nil] :
         queryURL \in {ResolveURL(serverText, SegmentsPath \o segment_id \o <<"/ports/">> \o port_id)}})

NewGetSegmentPortRequest(serverText, user, pass, segment_id, port_id) ==
    The({IF queryURL.err # Nil THEN [req |-> Nil, err |-> queryURL.err]
        ELSE [req |-> [NewRequest("GET", queryURL.url, NoBody)
                           EXCEPT !.Authorization = BasicAuth(user, pass)],
               err |-> Nil] :
         queryURL \in {ResolveURL(serverText, SegmentsPath \o segment_id \o <<"/ports/">> \o port_id)}})

\* body is a PatchSegmentPortRequest: [SegmentId, PortId, SegmentPort]
NewPatchSegmentPortRequest(serverText, user, pass, body) ==
    The({IF queryURL.err # Nil THEN [req |-> Nil, err |-> queryURL.err]
        ELSE [req |-> [NewRequest("PATCH", queryURL.url, JsonBody(MarshalSegmentPort(body.SegmentPort)))
                           EXCEPT !.Authorization = BasicAuth(user, pass),
                                   !.ContentType = <<"application/json">>],
               err |-> Nil] :
         queryURL \in {ResolveURL(serverText, SegmentsPath \o body.SegmentId \o <<"/ports/">> \o body.PortId)}})

----------------------------------------------------------------------------
(* package client: request editors *)

\* the request editors of the model: "stamp" edits the request and succeeds,
\* "refuse" returns an error
Editors == {"stamp", "refuse"}

EditorErr(fn) == IF fn = "refuse" THEN "editor refused" ELSE Nil

\* one RequestEditorFn called on the request
CallEditor(fn, req) ==
    IF EditorErr(fn) # Nil THEN req ELSE [req EXCEPT !.Edits = Append(@, fn)]

\* `for _, r := range editors { if err := r(ctx, req); err != nil { return err } }`
\* loop[i] is the loop after i editors; ran lists the editors that were called
RunEditors(editors, req, ran) ==
    LET loop[i \in 0..Len(editors)] ==
            IF i = 0 THEN [req |-> req, err |-> Nil, ran |-> ran]
            ELSE IF loop[i - 1].err # Nil THEN loop[i - 1]
            ELSE [req |-> CallEditor(editors[i], loop[i - 1].req),
                  err |-> EditorErr(editors[i]),
                  ran |-> Append(loop[i - 1].ran, editors[i])]
    IN loop[Len(editors)]

\* an applyEditors that runs the editors of the call before those of the client
applyEditorsOfCallFirst(c, req, additionalEditors) ==
    The({IF first.err # Nil THEN first
         ELSE RunEditors(c.RequestEditors, first.req, first.ran) :
         first \in {RunEditors(additionalEditors, req, <<>>)}})

applyEditors(c, req, additionalEditors) ==
    The({IF first.err # Nil THEN first
         ELSE RunEditors(additionalEditors, first.req, first.ran) :
         first \in {RunEditors(c.RequestEditors, req, <<>>)}})

\* WithRequestEditorFn(fn) applied to a client under construction
WithRequestEditorFn(c, fn) == [c EXCEPT !.RequestEditors = Append(@, fn)]

\* NewClient(server, username, password, opts...), every option a WithRequestEditorFn:
\* `for _, o := range opts { o(&client) }`
ApplyOptions(c, opts) ==
    LET loop[i \in 0..Len(opts)] ==
            IF i = 0 THEN c ELSE WithRequestEditorFn(loop[i - 1], opts[i])
    IN loop[Len(opts)]

NewClient(serverText, username, password, opts) ==
    ApplyOptions([Server |-> serverText, Username |-> username, Password |-> password,
                  RequestEditors |-> <<>>], opts)

----------------------------------------------------------------------------
(* The inputs of the model *)

GoodServer == <<"https://nsx.example">>
BadServer == <<"https://nsx.example", "%">>

\* segment ids: a plain one, and one with a character that means something in a URL
SegIds == {<<"seg-a">>, <<"seg-a", "?">>}
\* port ids: a plain one, and one that no URL can hold
PortIds == {<<"port-1">>, <<"port-1", "%">>}

ItemPath(segment_id, port_id) == SegmentsPath \o segment_id \o <<"/ports/">> \o port_id
ListPath(segment_id) == SegmentsPath \o segment_id \o <<"/ports">>

\* the URLs of the segment ports the server may hold
ItemURLs ==
    {r.url : r \in {q \in {ResolveURL(GoodServer, ItemPath(sg, pt)) :
                              sg \in SegIds, pt \in PortIds} : q.err = Nil}}

\* the sequences over S of length at most n
SeqsUpTo(S, n) == UNION {[1..k -> S] : k \in 0..n}

----------------------------------------------------------------------------
(* The HttpRequestDoer c.Client: the transport and the remote server.        *)
(* The server keeps, for every port URL, the body last PATCHed to it.        *)

Absent == [kind |-> "absent", val |-> JNull]
Deleted == [kind |-> "deleted", val |-> JNull]

NoPortsStored == [u \in ItemURLs |-> Absent]

\* how one dispatched request fares: the connection fails before the server sees
\* the request ("transport"); the server handles it but the response is lost
\* ("lost"); the server handles it and answers ("faithful"); the server answers
\* with a status and body of its own and keeps its store ("reply")
Transport == [kind |-> "transport", code |-> 0, body |-> EmptyBody]
Lost == [kind |-> "lost", code |-> 0, body |-> EmptyBody]
Faithful == [kind |-> "faithful", code |-> 0, body |-> EmptyBody]
Reply(code, body) == [kind |-> "reply", code |-> code, body |-> body]

\* the members of a set in a sequence, in an order of the server's choosing
SetToSeq(S) ==
    CHOOSE f \in [1..Cardinality(S) -> S] : \A i, j \in 1..Cardinality(S) : i # j => f[i] # f[j]

\* the URL of the port list of a segment
IsListURL(url) ==
    \E sg \in SegIds :
       /\ ParseURL(ListPath(sg)).err = Nil
       /\ url.path = ParseURL(ListPath(sg)).path
       /\ url.hasQuery = ParseURL(ListPath(sg)).hasQuery
       /\ url.query = ParseURL(ListPath(sg)).query

\* the stored ports a list URL covers
ListedURLs(store, url) ==
    {u \in DOMAIN store :
        /\ store[u].kind = "json"
        /\ u.base = url.base
        /\ \E sg \in SegIds, pt \in PortIds :
              /\ ParseURL(ListPath(sg)).err = Nil
              /\ ParseURL(ItemPath(sg, pt)).err = Nil
              /\ url.path = ParseURL(ListPath(sg)).path
              /\ url.query = ParseURL(ListPath(sg)).query
              /\ u.path = ParseURL(ItemPath(sg, pt)).path
              /\ u.query = ParseURL(ItemPath(sg, pt)).query}

ListBody(store, url) ==
    The({JsonBody(JObj([result_count |-> [k |-> "num", n |-> Len(urls)],
                        results |-> JArr([i \in 1..Len(urls) |-> store[urls[i]].val])])) :
         urls \in {SetToSeq(ListedURLs(store, url))}})

\* a server that takes a PATCH for a port it does not hold yet, and no other
ServeCreateOnly(store, req) ==
    IF req.URL \in DOMAIN store /\ req.Method = "PATCH"
    THEN IF store[req.URL].kind = "json"
         THEN [resp |-> Response(409, EmptyBody), store |-> store]
         ELSE [resp |-> Response(StatusOK, EmptyBody),
               store |-> [store EXCEPT ![req.URL] = req.Body]]
    ELSE [resp |-> Response(StatusNotFound, EmptyBody), store |-> store]

\* the server handling a request: [resp, store]
Serve(store, req) ==
    IF req.URL \in DOMAIN store
    THEN CASE req.Method = "PATCH" ->
                [resp |-> Response(StatusOK, EmptyBody),
                 store |-> [store EXCEPT ![req.URL] = req.Body]]
           [] req.Method = "GET" ->
                IF store[req.URL].kind = "json"
                THEN [resp |-> Response(StatusOK, store[req.URL]), store |-> store]
                ELSE [resp |-> Response(StatusNotFound, EmptyBody), store |-> store]
           [] req.Method = "DELETE" ->
                IF store[req.URL].kind = "json"
                THEN [resp |-> Response(StatusOK, EmptyBody),
                      store |-> [store EXCEPT ![req.URL] = Deleted]]
                ELSE [resp |-> Response(StatusNotFound, EmptyBody), store |-> store]
           [] OTHER -> [resp |-> Response(StatusNotFound, EmptyBody), store |-> store]
    ELSE IF req.Method = "GET" /\ IsListURL(req.URL)
         THEN [resp |-> Response(StatusOK, ListBody(store, req.URL)), store |-> store]
         ELSE [resp |-> Response(StatusNotFound, EmptyBody), store |-> store]

\* an executor that makes an error of every status from 400 on
DoCheckingStatus(store, req, how) ==
    CASE how.kind = "transport" ->
            [resp |-> NilResponse, err |-> "connection refused", store |-> store]
      [] how.kind = "reply" ->
            IF how.code >= 400
            THEN [resp |-> NilResponse, err |-> StatusLine(how.code), store |-> store]
            ELSE [resp |-> Response(how.code, how.body), err |-> Nil, store |-> store]
      [] OTHER ->
            The({IF how.kind = "lost"
                 THEN [resp |-> NilResponse, err |-> "timeout awaiting response",
                       store |-> served.store]
                 ELSE [resp |-> served.resp, err |-> Nil, store |-> served.store] :
                 served \in {Serve(store, req)}})

\* c.Client.Do(req): [resp, err, store]
Do(store, req, how) ==
    CASE how.kind = "transport" ->
            [resp |-> NilResponse, err |-> "connection refused", store |-> store]
      [] how.kind = "reply" ->
            [resp |-> Response(how.code, how.body), err |-> Nil, store |-> store]
      [] OTHER ->
            The({IF how.kind = "lost"
                 THEN [resp |-> NilResponse, err |-> "timeout awaiting response",
                       store |-> served.store]
                 ELSE [resp |-> served.resp, err |-> Nil, store |-> served.store] :
                 served \in {Serve(store, req)}})

----------------------------------------------------------------------------
(* package client: the four operations.  Each yields                       *)
(*   resp, err : what the method returns                                   *)
(*   built     : the request as the builder made it (none on a build error)*)
(*   ran       : the request editors that were called, in order            *)
(*   sent      : the requests handed to c.Client.Do                        *)
(*   store     : the server's store afterwards                             *)
(*   client    : the client c afterwards (the methods have a pointer       *)
(*               receiver; none of them assigns to a field of c)           *)

\* the part the four operations share: `req = req.WithContext(ctx)`, applyEditors,
\* then `return c.Client.Do(req)`
\* an operation that drops the client's credentials once the request is out
SentForgettingCredentials(c, store, built, edited, how) ==
    The({[resp |-> done.resp, err |-> done.err, built |-> <<built.req>>,
          ran |-> edited.ran, sent |-> <<edited.req>>, store |-> done.store,
          client |-> [c EXCEPT !.Username = Empty, !.Password = Empty]] :
         done \in {Do(store, edited.req, how)}})

Sent(c, store, built, edited, how) ==
    The({[resp |-> done.resp, err |-> done.err, built |-> <<built.req>>,
          ran |-> edited.ran, sent |-> <<edited.req>>, store |-> done.store,
          client |-> c] :
         done \in {Do(store, edited.req, how)}})

Edited(c, store, built, reqEditors, how) ==
    The({IF edited.err # Nil
         THEN [resp |-> NilResponse, err |-> edited.err, built |-> <<built.req>>,
               ran |-> edited.ran, sent |-> <<>>, store |-> store, client |-> c]
         ELSE Sent(c, store, built, edited, how) :
         edited \in {applyEditors(c, built.req, reqEditors)}})

Dispatch(c, store, request, reqEditors, how) ==
    The({IF built.err # Nil
         THEN [resp |-> NilResponse, err |-> built.err, built |-> <<>>, ran |-> <<>>,
               sent |-> <<>>, store |-> store, client |-> c]
         ELSE Edited(c, store, built, reqEditors, how) :
         built \in {request}})

DeleteSegmentPort(c, store, segment_id, port_id, reqEditors, how) ==
    Dispatch(c, store, NewDeleteSegmentPortRequest(c.Server, segment_id, port_id),
             reqEditors, how)

ListSegmentPorts(c, store, segment_id, reqEditors, how) ==
    Dispatch(c, store,
             NewListSegmentPortsRequest(c.Server, c.Username, c.Password, segment_id),
             reqEditors, how)

GetSegmentPort(c, store, segment_id, port_id, reqEditors, how) ==
    Dispatch(c, store,
             NewGetSegmentPortRequest(c.Server, c.Username, c.Password, segment_id, port_id),
             reqEditors, how)

PatchSegmentPort(c, store, body, reqEditors, how) ==
    Dispatch(c, store,
             NewPatchSegmentPortRequest(c.Server, c.Username, c.Password, body),
             reqEditors, how)

----------------------------------------------------------------------------
(* terraform-plugin-framework values the adapters handle *)

\* types.String
StringValue(s) == [null |-> FALSE, value |-> s]
StringNull == [null |-> TRUE, value |-> Empty]
ValueString(s) == IF s.null THEN Empty ELSE s.value

\* a segmentPortResourceModel held as plan or state
Model(segment_id, port_id, segment_port) ==
    [null |-> FALSE, SegmentId |-> segment_id, PortId |-> port_id,
     SegmentPort |-> segment_port]

\* no resource in the tracked state
NoState ==
    [null |-> TRUE, SegmentId |-> StringNull, PortId |-> StringNull,
     SegmentPort |-> ZeroSegmentPort]

\* resp.Diagnostics
ErrorDiag(summary, detail) == [severity |-> "error", summary |-> summary, detail |-> detail]
HasError(diags) == \E i \in 1..Len(diags) : diags[i].severity = "error"

\* what Plan.Get / State.Get / Config.Get report when the value does not fit the model
GetFailed == <<ErrorDiag("Value Conversion Error", "mismatch between schema and model")>>

\* string(spResponse.StatusCode): the one-character text whose code point is the status
RuneString(code) == <<[rune |-> code]>>

\* a client call that was not made
NoCall ==
    [resp |-> NilResponse, err |-> Nil, built |-> <<>>, ran |-> <<>>, sent |-> <<>>,
     store |-> NoPortsStored, client |-> Nil]

\* what a resource handler leaves behind: the tracked state, resp.Diagnostics, the
\* client call it made, whether it called State.Set / State.RemoveResource, and
\* whether it dereferenced a nil client
Outcome(st, diags, call, called, set, removed, panic) ==
    [state |-> st, diags |-> diags, call |-> call, called |-> called, set |-> set,
     removed |-> removed, panic |-> panic]

----------------------------------------------------------------------------
(* package provider: segmentPortResource *)

\* Configure: r.client is set only from a *client.Client
ResourceConfigure(ptr, providerData) ==
    IF providerData = "nil" THEN ptr
    ELSE IF providerData # "*client.Client" THEN ptr
    ELSE "set"

\* a check that takes every 2xx status for success
PatchRespondedAny2xx(prior, plan, getDiags, spResponse) ==
    IF spResponse.resp.StatusCode \notin 200..299
    THEN Outcome(prior,
                 Append(getDiags,
                        ErrorDiag(<<"An invalid response was received. Code: ">>
                                    \o RuneString(spResponse.resp.StatusCode),
                                  spResponse.resp.Status)),
                 spResponse, TRUE, FALSE, FALSE, FALSE)
    ELSE Outcome(plan, getDiags, spResponse, TRUE, TRUE, FALSE, FALSE)

\* Create and Update once PatchSegmentPort has returned a response:
\* `if spResponse.StatusCode != 200 { AddError; return }`, then `resp.State.Set(ctx, plan)`
PatchResponded(prior, plan, getDiags, spResponse) ==
    IF spResponse.resp.StatusCode # 200
    THEN Outcome(prior,
                 Append(getDiags,
                        ErrorDiag(<<"An invalid response was received. Code: ">>
                                    \o RuneString(spResponse.resp.StatusCode),
                                  spResponse.resp.Status)),
                 spResponse, TRUE, FALSE, FALSE, FALSE)
    ELSE Outcome(plan, getDiags, spResponse, TRUE, TRUE, FALSE, FALSE)

\* Create(ctx, req, resp), with the plan and the diagnostics of req.Plan.Get;
\* prior is resp.State on entry
Create(ptr, c, store, prior, plan, getDiags, how) ==
    IF HasError(getDiags)
    THEN Outcome(prior, getDiags, NoCall, FALSE, FALSE, FALSE, FALSE)
    ELSE IF ptr = "nil"
    THEN Outcome(prior, getDiags, NoCall, FALSE, FALSE, FALSE, TRUE)
    ELSE The({IF spResponse.err # Nil
              THEN Outcome(prior,
                           Append(getDiags, ErrorDiag(<<"Unable to Create Segment Port">>,
                                                      spResponse.err)),
                           spResponse, TRUE, FALSE, FALSE, FALSE)
              ELSE PatchResponded(prior, plan, getDiags, spResponse) :
              spResponse \in {PatchSegmentPort(c, store,
                                               [SegmentId |-> ValueString(plan.SegmentId),
                                                PortId |-> ValueString(plan.PortId),
                                                SegmentPort |-> plan.SegmentPort],
                                               <<>>, how)}})

\* a Read that takes 404 for one more unexpected status
NotFoundFatal(prior, getDiags, spResponse) ==
    Outcome(prior,
            Append(getDiags,
                   ErrorDiag(<<"Unexpected HTTP error code received for segment port">>,
                             spResponse.resp.Status)),
            spResponse, TRUE, FALSE, FALSE, FALSE)

\* Read on status 404: `resp.State.RemoveResource(ctx); return`
NotFound(prior, getDiags, spResponse) ==
    Outcome(NoState, getDiags, spResponse, TRUE, FALSE, TRUE, FALSE)

\* a Read that does not look at the decoder's error
RefreshedUnchecked(prior, getDiags, spResponse) ==
    Outcome(Model(prior.SegmentId, prior.PortId, DecodeSegmentPort(spResponse.resp.Body).v),
            getDiags, spResponse, TRUE, TRUE, FALSE, FALSE)

\* Read on status 200: the body is decoded into a new client.SegmentPort, which
\* replaces segment_port in the state; segment_id and port_id stay
\* a Read that decodes the body over the segment_port it holds, so that what
\* the body leaves out stays as it was
RefreshedMerging(prior, getDiags, spResponse) ==
    The({IF newSegmentPort.err
         THEN Outcome(prior,
                      Append(getDiags,
                             ErrorDiag(<<"Invalid format received for Item">>,
                                       "json: cannot decode")),
                      spResponse, TRUE, FALSE, FALSE, FALSE)
         ELSE Outcome(Model(prior.SegmentId, prior.PortId, newSegmentPort.v),
                      getDiags, spResponse, TRUE, TRUE, FALSE, FALSE) :
         newSegmentPort \in {IF spResponse.resp.Body.kind = "json"
                             THEN UnmarshalSegmentPort(spResponse.resp.Body.val,
                                                       prior.SegmentPort)
                             ELSE [v |-> prior.SegmentPort, err |-> TRUE]}})

Refreshed(prior, getDiags, spResponse) ==
    The({IF newSegmentPort.err
         THEN Outcome(prior,
                      Append(getDiags,
                             ErrorDiag(<<"Invalid format received for Item">>,
                                       "json: cannot decode")),
                      spResponse, TRUE, FALSE, FALSE, FALSE)
         ELSE Outcome(Model(prior.SegmentId, prior.PortId, newSegmentPort.v),
                      getDiags, spResponse, TRUE, TRUE, FALSE, FALSE) :
         newSegmentPort \in {DecodeSegmentPort(spResponse.resp.Body)}})

\* Read(ctx, req, resp), with the diagnostics of req.State.Get
Read(ptr, c, store, prior, getDiags, how) ==
    IF HasError(getDiags)
    THEN Outcome(prior, getDiags, NoCall, FALSE, FALSE, FALSE, FALSE)
    ELSE IF ptr = "nil"
    THEN Outcome(prior, getDiags, NoCall, FALSE, FALSE, FALSE, TRUE)
    ELSE The({IF spResponse.err # Nil
              THEN Outcome(prior,
                           Append(getDiags,
                                  ErrorDiag(<<"Unable to Read Segment Port configuration">>,
                                            spResponse.err)),
                           spResponse, TRUE, FALSE, FALSE, FALSE)
              ELSE IF spResponse.resp.StatusCode = StatusNotFound
              THEN NotFound(prior, getDiags, spResponse)
              ELSE IF spResponse.resp.StatusCode # StatusOK
              THEN Outcome(prior,
                           Append(getDiags,
                                  ErrorDiag(<<"Unexpected HTTP error code received for segment port">>,
                                            spResponse.resp.Status)),
                           spResponse, TRUE, FALSE, FALSE, FALSE)
              ELSE Refreshed(prior, getDiags, spResponse) :
              spResponse \in {GetSegmentPort(c, store, ValueString(prior.SegmentId),
                                             ValueString(prior.PortId), <<>>, how)}})

\* an Update that sends only the fields of the plan that differ from the state
UpdateChangedFields(ptr, c, store, prior, plan, getDiags, how) ==
    Create(ptr, c, store, prior,
           [plan EXCEPT !.SegmentPort =
                [f \in DOMAIN plan.SegmentPort |->
                    IF plan.SegmentPort[f] = prior.SegmentPort[f]
                    THEN ZeroSegmentPort[f] ELSE plan.SegmentPort[f]]],
           getDiags, how)

\* Update(ctx, req, resp), with the plan and the diagnostics of req.Plan.Get
Update(ptr, c, store, prior, plan, getDiags, how) ==
    IF HasError(getDiags)
    THEN Outcome(prior, getDiags, NoCall, FALSE, FALSE, FALSE, FALSE)
    ELSE IF ptr = "nil"
    THEN Outcome(prior, getDiags, NoCall, FALSE, FALSE, FALSE, TRUE)
    ELSE The({IF spResponse.err # Nil
              THEN Outcome(prior,
                           Append(getDiags, ErrorDiag(<<"Unable to Create Segment Port">>,
                                                      spResponse.err)),
                           spResponse, TRUE, FALSE, FALSE, FALSE)
              ELSE PatchResponded(prior, plan, getDiags, spResponse) :
              spResponse \in {PatchSegmentPort(c, store,
                                               [SegmentId |-> ValueString(plan.SegmentId),
                                                PortId |-> ValueString(plan.PortId),
                                                SegmentPort |-> plan.SegmentPort],
                                               <<>>, how)}})

\* Delete(ctx, req, resp), with the diagnostics of req.State.Get.  The handler never
\* touches resp.State; the framework drops the resource from the tracked state when
\* the handler returns without an error diagnostic.
\* a Delete that looks at the status of the response and takes only 200 for done
DeleteCheckingStatus(ptr, c, store, prior, getDiags, how) ==
    IF HasError(getDiags)
    THEN Outcome(prior, getDiags, NoCall, FALSE, FALSE, FALSE, FALSE)
    ELSE IF ptr = "nil"
    THEN Outcome(prior, getDiags, NoCall, FALSE, FALSE, FALSE, TRUE)
    ELSE The({IF deleted.err # Nil
              THEN Outcome(prior,
                           Append(getDiags,
                                  ErrorDiag(<<"Unable to Delete Item">>, deleted.err)),
                           deleted, TRUE, FALSE, FALSE, FALSE)
              ELSE IF deleted.resp.StatusCode # StatusOK
              THEN Outcome(prior,
                           Append(getDiags,
                                  ErrorDiag(<<"Unable to Delete Item">>, deleted.resp.Status)),
                           deleted, TRUE, FALSE, FALSE, FALSE)
              ELSE Outcome(NoState, getDiags, deleted, TRUE, FALSE, FALSE, FALSE) :
              deleted \in {DeleteSegmentPort(c, store, ValueString(prior.SegmentId),
                                             ValueString(prior.PortId), <<>>, how)}})

Delete(ptr, c, store, prior, getDiags, how) ==
    IF HasError(getDiags)
    THEN Outcome(prior, getDiags, NoCall, FALSE, FALSE, FALSE, FALSE)
    ELSE IF ptr = "nil"
    THEN Outcome(prior, getDiags, NoCall, FALSE, FALSE, FALSE, TRUE)
    ELSE The({IF deleted.err # Nil
              THEN Outcome(prior,
                           Append(getDiags,
                                  ErrorDiag(<<"Unable to Delete Item">>, deleted.err)),
                           deleted, TRUE, FALSE, FALSE, FALSE)
              ELSE Outcome(NoState, getDiags, deleted, TRUE, FALSE, FALSE, FALSE) :
              deleted \in {DeleteSegmentPort(c, store, ValueString(prior.SegmentId),
                                             ValueString(prior.PortId), <<>>, how)}})

\* an import that takes the id for "segment/port" and fills both attributes
ImportStateSplitting(id) ==
    The({Outcome(IF k = 0 THEN Model(StringNull, StringValue(id), ZeroSegmentPort)
                 ELSE Model(StringValue(SubSeq(id, 1, k - 1)),
                            StringValue(SubSeq(id, k + 1, Len(id))), ZeroSegmentPort),
                 <<>>, NoCall, FALSE, TRUE, FALSE, FALSE) :
         k \in {IndexOf(id, "/")}})

\* ImportState: `resource.ImportStatePassthroughID(ctx, path.Root("port_id"), req,
\* resp)` sets port_id to req.ID in resp.State, which starts out with every
\* attribute null; r.client is not used
ImportState(id) ==
    Outcome(Model(StringNull, StringValue(id), ZeroSegmentPort),
            <<>>, NoCall, FALSE, TRUE, FALSE, FALSE)

----------------------------------------------------------------------------
(* package provider: segmentPortsDataSource *)

\* Configure has a value receiver: the assignment `d.client = client` changes the
\* copy, and the data source keeps the pointer it had
DataSourceConfigure(ptr, providerData) == ptr

\* a segmentPortsDataSourceModel
DataSourceModel(segment_id, segment_ports) ==
    [null |-> FALSE, SegmentId |-> segment_id, SegmentPorts |-> segment_ports]

NoDataSourceState == [null |-> TRUE, SegmentId |-> Empty, SegmentPorts |-> <<>>]

\* the provider.SegmentPort built from one element of Results
Snapshot(segment) ==
    [AddressBindings |-> segment.AddressBindings,
     AdminState |-> segment.AdminState,
     Attachment |-> segment.Attachment,
     Description |-> segment.Description,
     DisplayName |-> segment.DisplayName,
     Id |-> segment.Id,
     ResourceType |-> Empty]

\* a mapping that prepends each snapshot instead of appending it
MapResultsReversed(results) ==
    The({[fresh EXCEPT !.SegmentPorts =
                [i \in 1..Len(results) |-> Snapshot(results[Len(results) + 1 - i])]] :
         fresh \in {DataSourceModel(Empty, <<>>)}})

\* `state = segmentPortsDataSourceModel{}; state.SegmentId = state.SegmentId;
\*  for _, segment := range segmentPorts.Results { append }`
MapResults(results) ==
    The({[fresh EXCEPT !.SegmentId = fresh.SegmentId,
                       !.SegmentPorts = [i \in 1..Len(results) |-> Snapshot(results[i])]] :
         fresh \in {DataSourceModel(Empty, <<>>)}})

\* Read(ctx, req, resp) of the data source, with the configured segment_id and the
\* diagnostics of req.Config.Get, which are appended and not looked at
DataSourceRead(ptr, c, store, segment_id, getDiags, how) ==
    IF ptr = "nil"
    THEN Outcome(NoDataSourceState, getDiags, NoCall, FALSE, FALSE, FALSE, TRUE)
    ELSE The({IF portsResponse.err # Nil
              THEN Outcome(NoDataSourceState,
                           Append(getDiags,
                                  ErrorDiag(<<"Unable to Read segment ports for ">>,
                                            portsResponse.err)),
                           portsResponse, TRUE, FALSE, FALSE, FALSE)
              ELSE IF portsResponse.resp.StatusCode # 200
              THEN Outcome(NoDataSourceState,
                           Append(getDiags,
                                  ErrorDiag(<<"Unexpected HTTP error code received for Item">>,
                                            portsResponse.resp.Status)),
                           portsResponse, TRUE, FALSE, FALSE, FALSE)
              ELSE The({IF segmentPorts.err
                        THEN Outcome(NoDataSourceState,
                                     Append(getDiags,
                                            ErrorDiag(<<"Invalid format received for segment ports">>,
                                                      "json: cannot decode")),
                                     portsResponse, TRUE, FALSE, FALSE, FALSE)
                        ELSE Outcome(MapResults(segmentPorts.v), getDiags, portsResponse,
                                     TRUE, TRUE, FALSE, FALSE) :
                        segmentPorts \in {DecodeListResponse(portsResponse.resp.Body)}}) :
              portsResponse \in {ListSegmentPorts(c, store,
                                                  IF HasError(getDiags) THEN Empty
                                                  ELSE segment_id,
                                                  <<>>, how)}})

----------------------------------------------------------------------------
(* package provider: NsxtIntervlanRoutingProvider *)

\* `var Client http.Client; var Auth AuthResponse; var Host string`, zero at start
ZeroGlobals ==
    [Client |-> [Timeout |-> 0, Transport |-> Nil],
     Auth |-> [Session |-> Empty, Path |-> Empty, Secure |-> FALSE, HttpOnly |-> FALSE,
               SameSite |-> Empty, XsrfToken |-> Empty],
     Host |-> Empty]

\* a types.String or types.Bool of the provider configuration
NullValue == [kind |-> "null", value |-> Empty]
UnknownValue == [kind |-> "unknown", value |-> Empty]
KnownValue(v) == [kind |-> "known", value |-> v]
IsNull(x) == x.kind = "null"
IsUnknown(x) == x.kind = "unknown"

\* types.Bool.String()
BoolString(x) ==
    CASE IsNull(x) -> <<"<null>">>
      [] IsUnknown(x) -> <<"<unknown>">>
      [] OTHER -> IF x.value THEN <<"true">> ELSE <<"false">>

\* resp.Diagnostics.AddAttributeError / AddAttributeWarning
AttributeErrorDiag(attribute, summary) ==
    [severity |-> "error", summary |-> summary, detail |-> attribute]
AttributeWarningDiag(attribute, summary) ==
    [severity |-> "warning", summary |-> summary, detail |-> attribute]

\* the three `IsUnknown()` tests on host, username and password; an unknown
\* insecure is taken for false and adds nothing
UnknownDiags(config) ==
    (IF IsUnknown(config.NsxtHost)
     THEN <<AttributeErrorDiag("host", <<"Unknown NSX InterVLAN Routing host">>)>>
     ELSE <<>>)
    \o (IF IsUnknown(config.NsxtUsername)
        THEN <<AttributeErrorDiag("username", <<"Unknown NSX InterVLAN Routing username">>)>>
        ELSE <<>>)
    \o (IF IsUnknown(config.NsxtPassword)
        THEN <<AttributeErrorDiag("password", <<"Unknown NSX InterVLAN Routing password">>)>>
        ELSE <<>>)

\* `v := os.Getenv(..); if !config.X.IsNull() { v = config.X.ValueString() }` for
\* the four values; env holds "" for a variable that is not set
Overridden(config, env) ==
    The({[insecure |-> IF ~IsNull(NsxtInsecure) THEN BoolString(NsxtInsecure)
                       ELSE env.NSXT_INSECURE,
          hostname |-> IF ~IsNull(config.NsxtHost) THEN config.NsxtHost.value
                       ELSE env.NSXT_HOSTNAME,
          username |-> IF ~IsNull(config.NsxtUsername) THEN config.NsxtUsername.value
                       ELSE env.NSXT_USERNAME,
          password |-> IF ~IsNull(config.NsxtPassword) THEN config.NsxtPassword.value
                       ELSE env.NSXT_PASSWORD] :
         NsxtInsecure \in {IF IsUnknown(config.NsxtInsecure) THEN KnownValue(FALSE)
                           ELSE config.NsxtInsecure}})

\* the four `if v == "" { AddAttributeWarning; v = default }` blocks; the one for
\* insecure adds its warning and assigns nothing
Defaulted(values) ==
    [values |-> [insecure |-> values.insecure,
                 hostname |-> IF values.hostname = Empty THEN <<"127.0.0.1">>
                              ELSE values.hostname,
                 username |-> IF values.username = Empty THEN <<"admin">>
                              ELSE values.username,
                 password |-> IF values.password = Empty THEN <<"password">>
                              ELSE values.password],
     diags |->
        (IF values.insecure = Empty
         THEN <<AttributeWarningDiag("insecure",
                  <<"Missing NSX-T Manager API Insecure (using default value: false)">>)>>
         ELSE <<>>)
        \o (IF values.hostname = Empty
            THEN <<AttributeWarningDiag("host",
                     <<"Missing NSX-T Manager API Hostname (using default value: 127.0.0.1)">>)>>
            ELSE <<>>)
        \o (IF values.username = Empty
            THEN <<AttributeWarningDiag("username",
                     <<"Missing NSX-T API username (using default value: admin)">>)>>
            ELSE <<>>)
        \o (IF values.password = Empty
            THEN <<AttributeWarningDiag("password",
                     <<"Missing NSX-T API port (using default value: password)">>)>>
            ELSE <<>>)]

\* url.QueryEscape, token by token
QueryEscape(s) ==
    [i \in 1..Len(s) |-> CASE s[i] = "@" -> "%40"
                           [] s[i] = " " -> "+"
                           [] OTHER -> s[i]]

\* creds.Encode(): the keys in sorted order
EncodeCreds(username, password) ==
    <<"j_password=">> \o QueryEscape(password) \o <<"&j_username=">> \o QueryEscape(username)

\* `Client := &http.Client{Timeout: 10 * time.Second}`: a local; its zero
\* Transport is http.DefaultTransport, which verifies certificates
LoginClient == [Timeout |-> 10, Transport |-> Nil]
InsecureSkipVerify(httpClient) == httpClient.Transport = "insecure"

\* a response body that io.ReadAll cannot read to its end
UnreadableBody == [kind |-> "unreadable", val |-> JNull]

\* text that begins with a URL scheme
HasScheme(text) == Len(text) > 0 /\ text[1] \in {"https://", "http://"}

\* what a provider Configure leaves behind: resp.Diagnostics, the values it
\* resolved, the login request (none when it was not built), the http client
\* that sent it, the response, resp.ResourceData and resp.DataSourceData, whether
\* it ended in a run-time panic, and the package-level variables
ProviderOutcome(diags, values, request, response, data, panic, g) ==
    [diags |-> diags, values |-> values, request |-> request, loginClient |-> LoginClient,
     response |-> response, ResourceData |-> data, DataSourceData |-> data,
     panic |-> panic, globals |-> g]

NoValues == [insecure |-> Empty, hostname |-> Empty, username |-> Empty, password |-> Empty]

\* Configure from `Host = hostname` on: the login POST and what follows it.
\* In the else branch err is nil, and `err.Error()` is evaluated before AddError
\* is called: the nil dereference ends Configure.
Login(values, diags, how, g) ==
    The({IF ParseURL(request.URL).err # Nil
         THEN ProviderOutcome(
                  Append(diags, ErrorDiag(<<"Error occurred configuring the client parameters">>,
                                          ParseURL(request.URL).err)),
                  values, <<>>, NilResponse, Nil, FALSE, host)
         ELSE IF how.kind = "transport" \/ ~HasScheme(request.URL)
         THEN ProviderOutcome(
                  Append(diags, ErrorDiag(<<"Unable to Create NSX-T API Client">>,
                                          IF HasScheme(request.URL) THEN "connection refused"
                                          ELSE "unsupported protocol scheme")),
                  values, <<request>>, NilResponse, Nil, FALSE, host)
         ELSE IF how.code = StatusOK
         THEN IF how.body.kind = "unreadable"
              THEN ProviderOutcome(
                       Append(diags, ErrorDiag(<<"Error reading the API response">>,
                                               "unexpected EOF")),
                       values, <<request>>, Response(how.code, how.body), Nil, FALSE, host)
              ELSE ProviderOutcome(diags, values, <<request>>, Response(how.code, how.body),
                                   "*http.Client", FALSE, host)
         ELSE ProviderOutcome(diags, values, <<request>>, Response(how.code, how.body),
                              Nil, TRUE, host) :
         request \in {[Method |-> "POST",
                        URL |-> values.hostname \o <<"/api/session/create">>,
                        Body |-> EncodeCreds(values.username, values.password)]},
         host \in {[g EXCEPT !.Host = values.hostname]}})

\* Configure(ctx, req, resp) of the provider, with the configuration, the
\* diagnostics of req.Config.Get, the environment, and the way the login fares
ProviderConfigure(config, getDiags, env, how, g) ==
    IF HasError(getDiags)
    THEN ProviderOutcome(getDiags, NoValues, <<>>, NilResponse, Nil, FALSE, g)
    ELSE IF HasError(getDiags \o UnknownDiags(config))
    THEN ProviderOutcome(getDiags \o UnknownDiags(config), NoValues, <<>>, NilResponse,
                         Nil, FALSE, g)
    ELSE The({Login(resolved.values, getDiags \o resolved.diags, how, g) :
              resolved \in {Defaulted(Overridden(config, env))}})

\* Metadata of the provider, of the resource and of the data source
ProviderTypeName == <<"nsxt-intervlan-routing">>
ResourceTypeName(constructor) ==
    CASE constructor = "NewSegmentPortResource" -> ProviderTypeName \o <<"_segment_port">>
      [] constructor = "NewSegmentPortsDataSource" -> ProviderTypeName \o <<"_segment_ports">>

\* Resources(ctx) and DataSources(ctx): the constructors the provider returns
Resources == <<>>
DataSources == <<"NewSegmentPortsDataSource">>

\* what terraform and the process environment give one attribute: the value of
\* the configuration and the value of the environment variable
Given(cfg, envValue) == [cfg |-> cfg, env |-> envValue]
InsecureGiven ==
    {Given(NullValue, Empty), Given(NullValue, <<"true">>), Given(KnownValue(TRUE), Empty)}
HostGiven ==
    {Given(NullValue, Empty), Given(NullValue, <<"https://", "env.example">>),
     Given(KnownValue(<<"https://", "nsx.example">>), <<"https://", "env.example">>),
     Given(KnownValue(<<"https://", "nsx", Percent>>), Empty)}
UsernameGiven ==
    {Given(NullValue, Empty), Given(KnownValue(<<"svc", "@", "nsx">>), <<"envuser">>),
     Given(UnknownValue, Empty)}
PasswordGiven ==
    {Given(NullValue, Empty), Given(NullValue, <<"env", " ", "pass">>)}

ProviderConfig(i, h, u, w) ==
    [NsxtInsecure |-> i.cfg, NsxtHost |-> h.cfg, NsxtUsername |-> u.cfg, NsxtPassword |-> w.cfg]
Environment(i, h, u, w) ==
    [NSXT_INSECURE |-> i.env, NSXT_HOSTNAME |-> h.env, NSXT_USERNAME |-> u.env,
     NSXT_PASSWORD |-> w.env]

\* how the login POST fares
LoginHows ==
    {Transport, Reply(StatusOK, EmptyBody), Reply(StatusOK, UnreadableBody),
     Reply(401, EmptyBody)}

\* the package-level variables once a provider Configure has handed a client over
ConfiguredGlobals ==
    ProviderConfigure(
        ProviderConfig(Given(NullValue, Empty),
                       Given(KnownValue(<<"https://", "nsx.example">>), Empty),
                       Given(KnownValue(<<"operator">>), Empty),
                       Given(KnownValue(<<"s3cret">>), Empty)),
        <<>>, Environment(Given(NullValue, Empty), Given(NullValue, Empty),
                          Given(NullValue, Empty), Given(NullValue, Empty)),
        Reply(StatusOK, EmptyBody), ZeroGlobals).globals

----------------------------------------------------------------------------
(* What the server may answer, per operation *)

\* a port as NSX itself writes it: address_bindings is an array
ArrayBindingsPort ==
    JObj([address_bindings |-> JArr(<<MarshalBinding(ChildPort.AddressBindings)>>),
          id |-> EncodeString(ChildPort.Id),
          resource_type |-> EncodeString(ChildPort.ResourceType)])

\* a port with members missing and an unknown one
PartialPort ==
    JObj([id |-> EncodeString(ParentPort.Id), unique_id |-> EncodeString(<<"7">>),
          description |-> JNull])

PatchHows == {Transport, Lost, Faithful} \cup {Reply(code, EmptyBody) : code \in {201, 204, 500}}

GetHows ==
    {Transport, Faithful, Reply(500, EmptyBody), Reply(StatusOK, MalformedBody),
     Reply(StatusOK, JsonBody(ArrayBindingsPort)), Reply(StatusOK, JsonBody(PartialPort))}

DeleteHows == {Transport, Lost, Faithful, Reply(401, EmptyBody), Reply(500, EmptyBody)}

ListResults == SeqsUpTo({MarshalSegmentPort(p) : p \in Ports}, MaxResults)

ListHows ==
    {Transport, Faithful, Reply(500, EmptyBody), Reply(StatusOK, MalformedBody),
     Reply(StatusOK, JsonBody(JObj([result_count |-> [k |-> "num", n |-> 0]]))),
     Reply(StatusOK, JsonBody(JObj([results |-> JArr(<<ArrayBindingsPort>>)])))}
    \cup {Reply(StatusOK, JsonBody(JObj([results |-> JArr(r)]))) : r \in ListResults}

\* the plans the framework may hand to Create and Update
Plans ==
    {Model(StringValue(<<"seg-a">>), StringValue(<<"port-1">>), ParentPort),
     Model(StringValue(<<"seg-a">>), StringValue(<<"port-1">>), ChildPort),
     Model(StringValue(<<"seg-a", "?">>), StringValue(<<"port-1">>), ParentPort),
     Model(StringValue(<<"seg-a">>), StringValue(<<"port-1", "%">>), ChildPort)}

\* the outcome of a framework Get paired with each way the server may answer,
\* and one failing Get
GetAndHow(hows) == {<<<<>>, h>> : h \in hows} \cup {<<GetFailed, Transport>>}

----------------------------------------------------------------------------
(* The state machine of the adapters *)

\* the client call of one handler, for the record in `last`
CallRecord(call) ==
    [resp |-> call.resp, err |-> call.err, built |-> call.built, ran |-> call.ran,
     sent |-> call.sent]

NoPlan == NoState

\* got: the diagnostics of the framework Get the handler began with; editors: the
\* request editors given with the call; after: when the call before this one was a
\* Create that set the state and whose request the server stored, the plan of that
\* Create, else NoPlan
Record(op, plan, prior, got, how, out, ds, after) ==
    [op |-> op, plan |-> plan, prior |-> prior, got |-> got, how |-> how,
     call |-> CallRecord(out.call), called |-> out.called, set |-> out.set,
     removed |-> out.removed, panic |-> out.panic, diags |-> out.diags,
     ds |-> ds, editors |-> <<>>, after |-> after]

AfterCreate(l) ==
    IF l.op = "Create" /\ l.set /\ l.how.kind = "faithful" THEN l.plan ELSE NoPlan

NoOutcome == Outcome(NoState, <<>>, NoCall, FALSE, FALSE, FALSE, FALSE)

\* the clients of the adapters: one that works, one whose request editor refuses,
\* one whose server text is no URL
AdapterClients ==
    {NewClient(GoodServer, <<"admin">>, <<"password">>, <<>>),
     NewClient(GoodServer, <<"admin">>, <<"password">>, <<"refuse">>),
     NewClient(BadServer, <<"admin">>, <<"password">>, <<>>)}

Init ==
    /\ apiClient \in AdapterClients
    /\ rClient = "nil"
    /\ dClient \in {"nil", "set"}
    /\ state = NoState
    /\ server = NoPortsStored
    /\ last = Record("New", NoPlan, NoState, <<>>, Transport, NoOutcome, NoDataSourceState, NoPlan)
    /\ globals = ConfiguredGlobals

\* the outcome of a resource handler takes effect: no handler assigns to a
\* package-level variable
Finish(op, plan, got, how, out) ==
    /\ state' = out.state
    /\ server' = IF out.called THEN out.call.store ELSE server
    /\ apiClient' = IF out.called THEN out.call.client ELSE apiClient
    /\ last' = Record(op, plan, state, got, how, out, NoDataSourceState, AfterCreate(last))
    /\ UNCHANGED <<rClient, dClient, globals>>

ResourceConfigureCall ==
    /\ ~last.panic
    /\ \E providerData \in {"nil", "*http.Client", "*client.Client"} :
          /\ rClient' = ResourceConfigure(rClient, providerData)
          /\ last' = Record("ResourceConfigure", NoPlan, state, <<>>, Transport, NoOutcome,
                            NoDataSourceState, AfterCreate(last))
    /\ UNCHANGED <<apiClient, dClient, state, server, globals>>

DataSourceConfigureCall ==
    /\ ~last.panic
    /\ \E providerData \in {"nil", "*http.Client", "*client.Client"} :
          /\ dClient' = DataSourceConfigure(dClient, providerData)
          /\ last' = Record("DataSourceConfigure", NoPlan, state, <<>>, Transport, NoOutcome,
                            NoDataSourceState, AfterCreate(last))
    /\ UNCHANGED <<apiClient, rClient, state, server, globals>>

\* the ids given to an import: a port id, and text that reads as two ids
ImportIds == {<<"port-1">>, <<"seg-a", "/", "port-1">>}

\* the import request on record: its ID, in the place of the port id
ImportRequest(id) == [NoPlan EXCEPT !.PortId = StringValue(id)]

\* terraform imports a resource it does not track
ImportStateCall ==
    /\ ~last.panic
    /\ state.null
    /\ \E id \in ImportIds :
          \E out \in {ImportState(id)} :
             Finish("ImportState", ImportRequest(id), <<>>, Transport, out)

\* terraform asks for a Create when it tracks no state, or once more with the
\* same plan straight after a Create
CreateCall ==
    /\ ~last.panic
    /\ \E plan \in Plans, gh \in GetAndHow(PatchHows) :
          /\ state.null \/ (last.op = "Create" /\ last.set /\ plan = last.plan)
          /\ \E out \in {Create(rClient, apiClient, server, state, plan, gh[1], gh[2])} :
                Finish("Create", plan, gh[1], gh[2], out)

ReadCall ==
    /\ ~last.panic
    /\ ~state.null
    /\ \E gh \in GetAndHow(GetHows) :
          \E out \in {Read(rClient, apiClient, server, state, gh[1], gh[2])} :
             Finish("Read", NoPlan, gh[1], gh[2], out)

UpdateCall ==
    /\ ~last.panic
    /\ ~state.null
    /\ \E plan \in Plans, gh \in GetAndHow(PatchHows) :
          \E out \in {Update(rClient, apiClient, server, state, plan, gh[1], gh[2])} :
             Finish("Update", plan, gh[1], gh[2], out)

DeleteCall ==
    /\ ~last.panic
    /\ ~state.null
    /\ \E gh \in GetAndHow(DeleteHows) :
          \E out \in {Delete(rClient, apiClient, server, state, gh[1], gh[2])} :
             Finish("Delete", NoPlan, gh[1], gh[2], out)

DataSourceReadCall ==
    /\ ~last.panic
    /\ \E sg \in SegIds, gh \in GetAndHow(ListHows) :
          \E out \in {DataSourceRead(dClient, apiClient, server, sg, gh[1], gh[2])} :
             /\ server' = IF out.called THEN out.call.store ELSE server
             /\ apiClient' = IF out.called THEN out.call.client ELSE apiClient
             /\ last' = Record("DataSourceRead",
                               Model(StringValue(sg), StringNull, ZeroSegmentPort),
                               state, gh[1], gh[2], out, out.state, AfterCreate(last))
    /\ UNCHANGED <<rClient, dClient, state, globals>>

Next ==
    \/ ResourceConfigureCall
    \/ DataSourceConfigureCall
    \/ CreateCall
    \/ ReadCall
    \/ UpdateCall
    \/ DeleteCall
    \/ ImportStateCall
    \/ DataSourceReadCall

Spec == Init /\ [][Next]_vars

----------------------------------------------------------------------------
(* The state machine of a program that calls the client itself, with request *)
(* editors of its own.  The server answers and keeps its store.              *)

\* the clients of the calling program: every list of request editors on a server
\* text that is a URL, and a client whose server text is none
Clients ==
    {NewClient(GoodServer, <<"admin">>, <<"password">>, opts) :
        opts \in SeqsUpTo(Editors, MaxEditors)}
    \cup {NewClient(BadServer, <<"admin">>, <<"password">>, <<>>)}

\* the executor fails, or answers 200
ClientHows == {Transport, Reply(StatusOK, EmptyBody), Reply(500, MalformedBody)}

\* what the program asks for: a port whose path is a URL, and one whose path is none
ClientPlans ==
    {Model(StringValue(<<"seg-a">>), StringValue(<<"port-1">>), ChildPort),
     Model(StringValue(<<"seg-a">>), StringValue(<<"port-1", "%">>), ParentPort)}

ClientInit ==
    /\ apiClient \in Clients
    /\ rClient = "nil"
    /\ dClient = "nil"
    /\ state = NoState
    /\ server = NoPortsStored
    /\ last = Record("New", NoPlan, NoState, <<>>, Transport, NoOutcome, NoDataSourceState, NoPlan)
    /\ globals = ZeroGlobals

\* the call is on record; nothing else changes
Returned(op, plan, reqEditors, how, call) ==
    /\ last' = [Record(op, plan, state, <<>>, how,
                       Outcome(state, <<>>, call, TRUE, FALSE, FALSE, FALSE),
                       NoDataSourceState, NoPlan)
                  EXCEPT !.editors = reqEditors]
    /\ server' = call.store
    /\ apiClient' = call.client
    /\ UNCHANGED <<rClient, dClient, state, globals>>

PatchSegmentPortCall ==
    \E plan \in ClientPlans, reqEditors \in SeqsUpTo(Editors, MaxEditors), how \in ClientHows :
       \E call \in {PatchSegmentPort(apiClient, server,
                                     [SegmentId |-> ValueString(plan.SegmentId),
                                      PortId |-> ValueString(plan.PortId),
                                      SegmentPort |-> plan.SegmentPort],
                                     reqEditors, how)} :
          Returned("PatchSegmentPort", plan, reqEditors, how, call)

GetSegmentPortCall ==
    \E plan \in ClientPlans, reqEditors \in SeqsUpTo(Editors, MaxEditors), how \in ClientHows :
       \E call \in {GetSegmentPort(apiClient, server, ValueString(plan.SegmentId),
                                   ValueString(plan.PortId), reqEditors, how)} :
          Returned("GetSegmentPort", Model(plan.SegmentId, plan.PortId, ZeroSegmentPort),
                   reqEditors, how, call)

DeleteSegmentPortCall ==
    \E plan \in ClientPlans, reqEditors \in SeqsUpTo(Editors, MaxEditors), how \in ClientHows :
       \E call \in {DeleteSegmentPort(apiClient, server, ValueString(plan.SegmentId),
                                      ValueString(plan.PortId), reqEditors, how)} :
          Returned("DeleteSegmentPort", Model(plan.SegmentId, plan.PortId, ZeroSegmentPort),
                   reqEditors, how, call)

ListSegmentPortsCall ==
    \E sg \in SegIds, reqEditors \in SeqsUpTo(Editors, MaxEditors), how \in ClientHows :
       \E call \in {ListSegmentPorts(apiClient, server, sg, reqEditors, how)} :
          Returned("ListSegmentPorts", Model(StringValue(sg), StringNull, ZeroSegmentPort),
                   reqEditors, how, call)

ClientNext ==
    \/ PatchSegmentPortCall
    \/ GetSegmentPortCall
    \/ DeleteSegmentPortCall
    \/ ListSegmentPortsCall

ClientSpec == ClientInit /\ [][ClientNext]_vars

----------------------------------------------------------------------------
(* The state machine of the provider server: terraform asks for the schema   *)
(* and configures the provider, any number of times.                         *)

ProviderInit ==
    /\ apiClient = NewClient(GoodServer, <<"admin">>, <<"password">>, <<>>)
    /\ rClient = "nil"
    /\ dClient = "nil"
    /\ state = NoState
    /\ server = NoPortsStored
    /\ last = [op |-> "New"]
    /\ globals = ZeroGlobals

\* ConfigureProvider: the provider's Configure runs; what it leaves is on record
ProviderConfigureCall ==
    \E i \in InsecureGiven, h \in HostGiven, u \in UsernameGiven, w \in PasswordGiven,
       getDiags \in {<<>>, GetFailed}, how \in LoginHows :
       \E out \in {ProviderConfigure(ProviderConfig(i, h, u, w), getDiags,
                                      Environment(i, h, u, w), how, globals)} :
          /\ last' = [op |-> "Configure", config |-> ProviderConfig(i, h, u, w),
                      env |-> Environment(i, h, u, w), getDiags |-> getDiags,
                      how |-> how, out |-> out]
          /\ globals' = out.globals
          /\ UNCHANGED <<apiClient, rClient, dClient, state, server>>

\* GetProviderSchema: the type names of what Resources and DataSources return
GetProviderSchemaCall ==
    /\ last' = [op |-> "GetProviderSchema",
                resources |-> [k \in 1..Len(Resources) |-> ResourceTypeName(Resources[k])],
                dataSources |-> [k \in 1..Len(DataSources) |->
                                   ResourceTypeName(DataSources[k])]]
    /\ UNCHANGED <<apiClient, rClient, dClient, state, server, globals>>

\* the data the provider has handed over for the adapters: resp.ResourceData
\* and resp.DataSourceData of the Configure that went before
HandedOver ==
    IF last.op = "Configure"
    THEN [ResourceData |-> last.out.ResourceData, DataSourceData |-> last.out.DataSourceData]
    ELSE IF last.op = "AdapterConfigure"
    THEN last.handed
    ELSE [ResourceData |-> Nil, DataSourceData |-> Nil]

\* the framework makes a resource and calls its Configure with the data handed over
ResourceConfigureWithHandedCall ==
    /\ HandedOver.ResourceData # Nil
    /\ rClient' = ResourceConfigure(rClient, HandedOver.ResourceData)
    /\ last' = [op |-> "AdapterConfigure", adapter |-> "resource", handed |-> HandedOver]
    /\ UNCHANGED <<apiClient, dClient, state, server, globals>>

\* the framework makes a data source and calls its Configure with the data handed over
DataSourceConfigureWithHandedCall ==
    /\ HandedOver.DataSourceData # Nil
    /\ dClient' = DataSourceConfigure(dClient, HandedOver.DataSourceData)
    /\ last' = [op |-> "AdapterConfigure", adapter |-> "datasource", handed |-> HandedOver]
    /\ UNCHANGED <<apiClient, rClient, state, server, globals>>

ProviderNext ==
    \/ ProviderConfigureCall
    \/ GetProviderSchemaCall
    \/ ResourceConfigureWithHandedCall
    \/ DataSourceConfigureWithHandedCall

ProviderSpec == ProviderInit /\ [][ProviderNext]_vars

----------------------------------------------------------------------------
(* Properties of the resource adapter, checked under Spec *)

\* C1: when a Create has set the state from its plan and the server has stored
\* the PATCH body, and the very next call is a Read that the server answers from
\* its store, the Read sets the state, keeps segment_id and port_id, and
\* segment_port.id and segment_port.resource_type of the new state equal those
\* of the plan that was given to Create.
C1_CreateThenReadKeepsIdAndType ==
    (last.op = "Read" /\ ~last.after.null /\ last.how.kind = "faithful")
        => /\ last.set
           /\ ~HasError(last.diags)
           /\ ~state.null
           /\ state.SegmentId = last.after.SegmentId
           /\ state.PortId = last.after.PortId
           /\ state.SegmentPort.Id = last.after.SegmentPort.Id
           /\ state.SegmentPort.ResourceType = last.after.SegmentPort.ResourceType

\* a Read straight after the Create of the CHILD port, whose id JSON escapes
C1_Witness ==
    /\ last.op = "Read"
    /\ last.after.SegmentPort = ChildPort
    /\ last.how.kind = "faithful"
    /\ last.set
    /\ state.SegmentPort.Id = ChildPort.Id
    /\ state.SegmentPort.ResourceType = <<"SegmentPort">>

\* C2: a Read whose GET goes to a port that was created and then deleted on the
\* server, and which the server answers with 404, removes the resource from
\* the tracked state and adds no error diagnostic.
C2_ReadOfDeletedPortRemovesState ==
    (/\ last.op = "Read"
     /\ Len(last.call.sent) = 1
     /\ last.call.err = Nil
     /\ last.call.resp.StatusCode = StatusNotFound
     /\ last.call.sent[1].URL \in DOMAIN server
     /\ server[last.call.sent[1].URL] = Deleted)
        => /\ last.removed
           /\ state.null
           /\ ~last.set
           /\ ~HasError(last.diags)

\* the port is in the state, the server has deleted it, and Read gets the 404
C2_Witness ==
    /\ last.op = "Read"
    /\ ~last.prior.null
    /\ Len(last.call.sent) = 1
    /\ last.call.sent[1].Method = "GET"
    /\ last.call.sent[1].URL \in DOMAIN server
    /\ server[last.call.sent[1].URL] = Deleted
    /\ last.call.resp.StatusCode = StatusNotFound
    /\ last.removed
    /\ state.null

\* C3: Create and Update set the tracked state to exactly the plan, having sent
\* one PATCH and no other request, if and only if PatchSegmentPort returned no
\* error and a response of status exactly 200; on an error or any other status
\* (201 and 204 included) they add one error diagnostic and leave the tracked
\* state as it was.
C3_StateSetIffPatchReturned200 ==
    last.op \in {"Create", "Update"} =>
        IF last.called /\ last.call.err = Nil /\ last.call.resp.StatusCode = 200
        THEN /\ last.set
             /\ state = last.plan
             /\ ~HasError(last.diags)
             /\ Len(last.call.sent) = 1
             /\ last.call.sent[1].Method = "PATCH"
        ELSE /\ ~last.set
             /\ state = last.prior
             /\ last.called =>
                    /\ HasError(last.diags)
                    /\ Len(last.diags) = Len(last.got) + 1
                    /\ \A i \in 1..Len(last.call.sent) : last.call.sent[i].Method = "PATCH"

\* an Update that the server answers with 204 No Content
C3_Witness ==
    /\ last.op = "Update"
    /\ last.called
    /\ last.call.err = Nil
    /\ last.call.resp.StatusCode = 204
    /\ last.plan # last.prior
    /\ state = last.prior
    /\ HasError(last.diags)

\* C4: a Read that called GetSegmentPort ends in exactly one of three ways, a
\* fatal diagnostic, the removal of the resource, or a new state, decided in
\* this order: an error of the call is fatal; status 404 removes the resource
\* and adds no error; any other status than 200 is fatal; status 200 with a
\* body that does not decode is fatal; status 200 with a body that decodes
\* replaces segment_port in the state by the decoded port.  Every fatal
\* outcome leaves the state as it was.
C4_ReadClassifiesInOrder ==
    (last.op = "Read" /\ last.called) =>
        /\ \/ HasError(last.diags) /\ ~last.removed /\ ~last.set
           \/ ~HasError(last.diags) /\ last.removed /\ ~last.set
           \/ ~HasError(last.diags) /\ ~last.removed /\ last.set
        /\ HasError(last.diags) => state = last.prior /\ Len(last.diags) = 1
        /\ last.removed => state.null
        /\ CASE last.call.err # Nil -> HasError(last.diags)
             [] last.call.resp.StatusCode = StatusNotFound -> last.removed
             [] last.call.resp.StatusCode # StatusOK ->
                    /\ HasError(last.diags)
                    /\ last.diags[1].detail = last.call.resp.Status
             [] DecodeSegmentPort(last.call.resp.Body).err -> HasError(last.diags)
             [] OTHER ->
                    /\ last.set
                    /\ state = Model(last.prior.SegmentId, last.prior.PortId,
                                     DecodeSegmentPort(last.call.resp.Body).v)

\* a 200 whose body holds address_bindings as an array: the decoder fails
C4_Witness ==
    /\ last.op = "Read"
    /\ last.called
    /\ last.call.err = Nil
    /\ last.call.resp.StatusCode = StatusOK
    /\ last.call.resp.Body = JsonBody(ArrayBindingsPort)
    /\ HasError(last.diags)
    /\ state = last.prior

\* C5: an Update does what a Create does with the same client, prior state,
\* plan and server answer: the same request is built and sent, and the same
\* state and diagnostics result.  The request it builds is a PATCH to the
\* plan's (segment_id, port_id), never the state's, and its body is the JSON
\* encoding of the whole planned SegmentPort: all seven members, decoding back
\* to the plan's port, whatever the prior state holds.
C5_UpdateSendsWhatCreateSends ==
    last.op = "Update" =>
        /\ \E out \in {Create(rClient, apiClient, server, last.prior, last.plan,
                               last.got, last.how)} :
              /\ state = out.state
              /\ last.diags = out.diags
              /\ last.set = out.set
              /\ last.call = CallRecord(out.call)
        /\ Len(last.call.built) <= 1
        /\ last.call.sent \in {<<>>, last.call.built}
        /\ \A i \in 1..Len(last.call.built) :
              /\ last.call.built[i].Method = "PATCH"
              /\ last.call.built[i].URL =
                    ResolveURL(apiClient.Server,
                               ItemPath(ValueString(last.plan.SegmentId),
                                        ValueString(last.plan.PortId))).url
              /\ last.call.built[i].Body.kind = "json"
              /\ DOMAIN last.call.built[i].Body.val.o =
                    {"address_bindings", "admin_state", "attachment", "description",
                     "display_name", "id", "resource_type"}
              /\ DecodeSegmentPort(last.call.built[i].Body) =
                    [v |-> last.plan.SegmentPort, err |-> FALSE]

\* an Update whose plan keeps the identity and resource_type of the state and
\* changes other fields: resource_type is in the body all the same
C5_Witness ==
    /\ last.op = "Update"
    /\ last.set
    /\ last.plan.SegmentId = last.prior.SegmentId
    /\ last.plan.PortId = last.prior.PortId
    /\ last.plan.SegmentPort # last.prior.SegmentPort
    /\ last.plan.SegmentPort.ResourceType = last.prior.SegmentPort.ResourceType
    /\ Len(last.call.sent) = 1
    /\ last.call.sent[1].Body.val.o["resource_type"] =
            EncodeString(last.plan.SegmentPort.ResourceType)

\* C6: a Delete is given no plan; the DELETE request it builds and sends goes to
\* the URL of the (segment_id, port_id) held in the tracked state when the
\* Delete began, whatever Create, Update and Read did before.
C6_DeleteUsesIdentityOfState ==
    (last.op = "Delete" /\ last.called) =>
        /\ last.plan = NoPlan
        /\ last.call.sent \in {<<>>, last.call.built}
        /\ \E queryURL \in {ResolveURL(apiClient.Server,
                                       ItemPath(ValueString(last.prior.SegmentId),
                                                ValueString(last.prior.PortId)))} :
              IF queryURL.err # Nil
              THEN last.call.built = <<>>
              ELSE /\ Len(last.call.built) = 1
                   /\ last.call.built[1].Method = "DELETE"
                   /\ last.call.built[1].URL = queryURL.url

\* an Update has moved the state to another identity than the one created
\* first; the Delete removes the port of the state and leaves the other stored
C6_Witness ==
    /\ last.op = "Delete"
    /\ last.how.kind = "faithful"
    /\ Len(last.call.sent) = 1
    /\ last.call.sent[1].URL \in DOMAIN server
    /\ server[last.call.sent[1].URL] = Deleted
    /\ \E u \in DOMAIN server : u # last.call.sent[1].URL /\ server[u].kind = "json"
    /\ state.null

\* a Delete answered 500: no diagnostic, the resource leaves the tracked state,
\* and the server still holds the port
C7_Witness ==
    /\ last.op = "Delete"
    /\ last.call.err = Nil
    /\ Len(last.call.sent) = 1
    /\ last.call.resp.StatusCode = 500
    /\ last.diags = <<>>
    /\ ~last.prior.null
    /\ state.null
    /\ server[last.call.sent[1].URL].kind = "json"

\* the statuses an operation does not expect, read most leniently for Delete
UnexpectedStatus(op, code) ==
    CASE op = "Read" -> code \notin {StatusOK, StatusNotFound}
      [] op = "Delete" -> code \notin (200..299) \cup {StatusNotFound}
      [] OTHER -> code # StatusOK

\* C7: in Create, Read, Update, Delete and the list data source, a response
\* with an unexpected status ends in an error diagnostic whose detail is the
\* status text, and the operation does not succeed: no new state is set, the
\* resource is not removed, and the tracked state stays as it was.
C7_UnexpectedStatusIsFatal ==
    (/\ last.op \in {"Create", "Read", "Update", "Delete", "DataSourceRead"}
     /\ last.called
     /\ last.call.err = Nil
     /\ Len(last.call.sent) = 1
     /\ UnexpectedStatus(last.op, last.call.resp.StatusCode))
        => /\ HasError(last.diags)
           /\ \E i \in 1..Len(last.diags) : last.diags[i].detail = last.call.resp.Status
           /\ ~last.set
           /\ ~last.removed
           /\ state = last.prior

C16_CreateTwiceIsIdempotent ==
    [][(/\ last.op = "Create" /\ last.set /\ last.how.kind = "faithful"
        /\ last'.op = "Create" /\ last'.plan = last.plan
        /\ ~HasError(last'.got) /\ last'.how.kind = "faithful")
       => /\ Len(last'.call.sent) = 1
          /\ last'.call.sent = last.call.sent
          /\ server' = server
          /\ last'.set
          /\ ~HasError(last'.diags)
          /\ state' = state]_vars

\* a second Create of the CHILD port, straight after the first
C16_Witness ==
    /\ last.op = "Create"
    /\ ~last.prior.null
    /\ last.prior = last.plan
    /\ last.plan.SegmentPort = ChildPort
    /\ last.how.kind = "faithful"
    /\ last.set
    /\ state = last.plan
    /\ Len(last.call.sent) = 1

AdapterOps == {"Create", "Read", "Update", "Delete", "DataSourceRead"}
ErrorCount(diags) == Cardinality({k \in 1..Len(diags) : diags[k].severity = "error"})

\* the call an adapter operation made has failed: it returned an error, or a
\* response with a status the operation does not expect
CallFailed ==
    /\ last.called
    /\ \/ last.call.err # Nil
       \/ UnexpectedStatus(last.op, last.call.resp.StatusCode)

\* C18: an adapter operation hands at most one request to the executor per
\* invocation, whatever the outcome (no retry after a transport error or a
\* failing status), and when its call has failed it adds exactly one error
\* diagnostic to those of reading its input.
C18_OneRequestOneDiagnostic ==
    last.op \in AdapterOps =>
       /\ Len(last.call.sent) <= 1
       /\ CallFailed => ErrorCount(last.diags) = ErrorCount(last.got) + 1

\* a Delete answered 401: one request, no diagnostic
C18_Witness ==
    /\ last.op = "Delete"
    /\ Len(last.call.sent) = 1
    /\ last.call.err = Nil
    /\ last.call.resp.StatusCode = 401
    /\ ErrorCount(last.diags) = 0

\* C19: an import sets a state whose port_id is the ID of the request,
\* unchanged, whatever the ID is; it adds no diagnostic, hands no request to the
\* client, and sets nothing else: segment_id is null and segment_port holds no
\* value.
C19_ImportPassesIdThrough ==
    last.op = "ImportState" =>
       /\ last.set
       /\ ~last.panic
       /\ last.diags = <<>>
       /\ ~last.called
       /\ last.call.sent = <<>>
       /\ ~state.null
       /\ ~state.PortId.null
       /\ state.PortId.value = last.plan.PortId.value
       /\ state.SegmentId = StringNull
       /\ state.SegmentPort = ZeroSegmentPort

\* an import whose ID reads as segment, slash, port: all of it is the port_id
C19_Witness ==
    /\ last.op = "ImportState"
    /\ last.plan.PortId.value = <<"seg-a", "/", "port-1">>
    /\ state.PortId = StringValue(<<"seg-a", "/", "port-1">>)
    /\ state.SegmentId.null

\* C20: a Delete that has called DeleteSegmentPort adds an error diagnostic
\* exactly when the call returned an error, and then the state stays.  When no
\* error was returned the status of the response plays no part: 200, 404, 401
\* and 500 alike add no diagnostic and the resource leaves the tracked state.
C20_DeleteLooksAtErrOnly ==
    (last.op = "Delete" /\ last.called) =>
       /\ ErrorCount(last.diags) > ErrorCount(last.got) <=> last.call.err # Nil
       /\ last.call.err # Nil =>
             /\ ErrorCount(last.diags) = ErrorCount(last.got) + 1
             /\ state = last.prior
       /\ last.call.err = Nil =>
             /\ last.call.resp.StatusCode \in {StatusOK, StatusNotFound, 401, 500}
             /\ last.diags = last.got
             /\ state.null

\* a Delete the server answered 404: no diagnostic, and the state is gone
C20_Witness ==
    /\ last.op = "Delete"
    /\ last.called
    /\ last.call.err = Nil
    /\ last.call.resp.StatusCode = StatusNotFound
    /\ last.diags = <<>>
    /\ ~last.prior.null
    /\ state.null

\* the elements of `results` in the body of the response on record, none when
\* the body holds no such array
ResultsOnRecord ==
    IF /\ last.call.resp.Body.kind = "json"
       /\ last.call.resp.Body.val.k = "obj"
       /\ "results" \in DOMAIN last.call.resp.Body.val.o
       /\ last.call.resp.Body.val.o["results"].k = "arr"
    THEN last.call.resp.Body.val.o["results"].a
    ELSE <<>>

C24_ReadKeepsNothingButIdentity ==
    (last.op = "Read" /\ last.set) =>
       /\ Len(last.call.sent) = 1
       /\ last.call.sent[1].Method = "GET"
       /\ last.call.sent[1].URL
             = ResolveURL(apiClient.Server,
                          ItemPath(ValueString(last.prior.SegmentId),
                                   ValueString(last.prior.PortId))).url
       /\ last.call.resp.Body.kind = "json"
       /\ state.SegmentPort
             = UnmarshalSegmentPort(last.call.resp.Body.val, ZeroSegmentPort).v
       /\ state.SegmentId = last.prior.SegmentId
       /\ state.PortId = last.prior.PortId

\* the state held the CHILD port and the body of the 200 holds an id and
\* little else: the display name and the attachment of the state are gone
C24_Witness ==
    /\ last.op = "Read"
    /\ last.set
    /\ last.prior.SegmentPort = ChildPort
    /\ last.call.resp.Body = JsonBody(PartialPort)
    /\ state.SegmentPort.DisplayName = Empty
    /\ state.SegmentPort.Attachment = ZeroSegmentPort.Attachment
    /\ state.SegmentPort.Id = ParentPort.Id
    /\ state.PortId = last.prior.PortId

----------------------------------------------------------------------------
(* Properties of the client, checked under ClientSpec *)

ClientOps == {"PatchSegmentPort", "GetSegmentPort", "DeleteSegmentPort", "ListSegmentPorts"}

\* C9: once the request is built, the client calls the client's request editors
\* in the order they were registered and then the editors given with the call
\* in the order given.  If none returns an error, all have run, their edits are
\* on the request in that order, and the request goes to the executor once.
\* At the first editor that returns an error no later editor runs, nothing is
\* sent to the executor, and the call returns that error with no response.
\* When the request cannot be built, no editor runs and nothing is sent.
C9_EditorsRunInOrderUntilFirstError ==
    last.op \in ClientOps =>
        IF last.call.built = <<>>
        THEN last.call.ran = <<>> /\ last.call.sent = <<>> /\ last.call.err # Nil
        ELSE \E hooks \in {apiClient.RequestEditors \o last.editors} :
                \E k \in {IndexOf([i \in 1..Len(hooks) |-> EditorErr(hooks[i]) # Nil], TRUE)} :
                   IF k = 0
                   THEN /\ last.call.ran = hooks
                        /\ Len(last.call.sent) = 1
                        /\ last.call.sent[1].Edits = hooks
                        /\ last.call.sent[1].URL = last.call.built[1].URL
                        /\ last.call.err = Nil <=> last.how.kind # "transport"
                        /\ last.call.err = Nil => last.call.resp.StatusCode = last.how.code
                   ELSE /\ last.call.ran = SubSeq(hooks, 1, k)
                        /\ last.call.sent = <<>>
                        /\ last.call.err = EditorErr(hooks[k])
                        /\ last.call.resp = NilResponse

\* the client's second editor refuses: the first has run, the editor given with
\* the call has not, and nothing was sent
C9_Witness ==
    /\ last.op \in ClientOps
    /\ apiClient.RequestEditors = <<"stamp", "refuse">>
    /\ last.editors = <<"stamp">>
    /\ last.call.built # <<>>
    /\ last.call.ran = <<"stamp", "refuse">>
    /\ last.call.sent = <<>>
    /\ last.call.err = "editor refused"

\* C10: every request that ListSegmentPorts, GetSegmentPort and PatchSegmentPort
\* build carries the Authorization header of basic auth made from the client's
\* Username and Password, and every request DeleteSegmentPort builds carries
\* no Authorization header; the request handed to the executor is the same in
\* this respect.
C10_BasicAuthOnAllButDelete ==
    last.op \in ClientOps =>
        \A req \in {last.call.built[i] : i \in 1..Len(last.call.built)}
                    \cup {last.call.sent[i] : i \in 1..Len(last.call.sent)} :
           IF last.op = "DeleteSegmentPort"
           THEN req.Authorization = <<>>
           ELSE req.Authorization =
                    <<"Basic ">> \o apiClient.Username \o <<":">> \o apiClient.Password

\* a DELETE request reached the executor with no Authorization header, from a
\* client that has a username and a password
C10_Witness ==
    /\ last.op = "DeleteSegmentPort"
    /\ apiClient.Username # Empty
    /\ apiClient.Password # Empty
    /\ Len(last.call.sent) = 1
    /\ last.call.sent[1].Method = "DELETE"
    /\ last.call.sent[1].Authorization = <<>>
    /\ last.call.resp.StatusCode = StatusOK

\* the method of each client operation
MethodOf(op) ==
    CASE op = "PatchSegmentPort" -> "PATCH"
      [] op = "DeleteSegmentPort" -> "DELETE"
      [] OTHER -> "GET"

\* C11: every request a client operation builds has the method of the
\* operation, the scheme and host of the server, no query, and the path
\* /policy/api/v1/infra/segments/{segment_id}/ports for List and
\* /policy/api/v1/infra/segments/{segment_id}/ports/{port_id} for Get, Patch and
\* Delete, with the ids it was called with; a Patch request has a JSON body
\* whose resource_type is that of the port given.
C11_MethodAndPathOfEachOperation ==
    last.op \in ClientOps =>
        \A i \in 1..Len(last.call.built) :
           /\ last.call.built[i].Method = MethodOf(last.op)
           /\ last.call.built[i].URL.base = apiClient.Server
           /\ ~last.call.built[i].URL.hasQuery
           /\ last.call.built[i].URL.path =
                 IF last.op = "ListSegmentPorts"
                 THEN <<"/policy/api/v1/infra/segments/">>
                        \o ValueString(last.plan.SegmentId) \o <<"/ports">>
                 ELSE <<"/policy/api/v1/infra/segments/">>
                        \o ValueString(last.plan.SegmentId) \o <<"/ports/">>
                        \o ValueString(last.plan.PortId)
           /\ last.op = "PatchSegmentPort" =>
                 /\ last.call.built[i].Body.kind = "json"
                 /\ last.call.built[i].Body.val.o["resource_type"] =
                       JStr(last.plan.SegmentPort.ResourceType)

\* a List for a segment id that holds "?": the path of the request ends at the
\* segment, and "/ports" has become its query
C11_Witness ==
    /\ last.op = "ListSegmentPorts"
    /\ ValueString(last.plan.SegmentId) = <<"seg-a", "?">>
    /\ Len(last.call.sent) = 1
    /\ last.call.sent[1].URL.path = <<"/policy/api/v1/infra/segments/", "seg-a">>
    /\ last.call.sent[1].URL.hasQuery
    /\ last.call.sent[1].URL.query = <<"/ports">>

\* the address bindings a plan holds, in order: client.SegmentPort has room for
\* one PortAddressBindingEntry
BindingsOf(sp) == <<sp.AddressBindings>>

\* C15: the address bindings are an ordered list, and the body of the PATCH
\* carries them under address_bindings as a JSON array of (ip_address,
\* mac_address, vlan_id) objects in that order.
C15_AddressBindingsAreAnArray ==
    (last.op = "PatchSegmentPort" /\ Len(last.call.sent) = 1) =>
       /\ last.call.sent[1].Body.kind = "json"
       /\ last.call.sent[1].Body.val.o["address_bindings"].k = "arr"
       /\ last.call.sent[1].Body.val.o["address_bindings"].a
             = [k \in 1..Len(BindingsOf(last.plan.SegmentPort)) |->
                  MarshalBinding(BindingsOf(last.plan.SegmentPort)[k])]

\* a PATCH went out whose address_bindings is one JSON object
C15_Witness ==
    /\ last.op = "PatchSegmentPort"
    /\ Len(last.call.sent) = 1
    /\ last.plan.SegmentPort = ChildPort
    /\ last.call.sent[1].Body.val.o["address_bindings"]
          = MarshalBinding(ChildPort.AddressBindings)

\* a request editor of the client or of the call refuses
HookFails ==
    \E hooks \in {apiClient.RequestEditors \o last.editors} :
       \E k \in 1..Len(hooks) : EditorErr(hooks[k]) # Nil

\* C21: a client operation returns an error exactly when the request cannot be
\* built, a request editor refuses, or the transport fails, and then it returns
\* no response; in every other case it returns a nil error and the response of
\* the server as it is, status and body, whatever the status.
C21_StatusIsLeftToTheCaller ==
    last.op \in ClientOps =>
       /\ last.call.err # Nil
             <=> (last.call.built = <<>> \/ HookFails \/ last.how.kind = "transport")
       /\ last.call.err # Nil => last.call.resp = NilResponse
       /\ last.call.err = Nil => last.call.resp = Response(last.how.code, last.how.body)

\* a Get the server answered 500 with a body that is no JSON: it comes back as
\* it is, with no error
C21_Witness ==
    /\ last.op = "GetSegmentPort"
    /\ Len(last.call.sent) = 1
    /\ last.call.err = Nil
    /\ last.call.resp = Response(500, MalformedBody)

----------------------------------------------------------------------------
(* Properties of the provider, checked under ProviderSpec *)

\* explicit configuration first, the environment variable second, the default last
Precedence(cfg, envValue, default) ==
    The({IF v = Empty THEN default ELSE v :
         v \in {IF ~IsNull(cfg) THEN cfg.value ELSE envValue}})
InsecureWanted(cfg, envValue) ==
    IF cfg.kind = "known" THEN cfg.value ELSE IsNull(cfg) /\ envValue = <<"true">>
FellBack(cfg, envValue) == (IF ~IsNull(cfg) THEN cfg.value ELSE envValue) = Empty
Warnings(diags, attribute) ==
    Cardinality({k \in 1..Len(diags) :
                   diags[k].severity = "warning" /\ diags[k].detail = attribute})

\* a Configure whose configuration was read and holds no unknown host, username
\* or password, and whose host makes a URL
Resolves ==
    /\ last.op = "Configure"
    /\ ~HasError(last.getDiags)
    /\ UnknownDiags(last.config) = <<>>
    /\ ParseURL(Precedence(last.config.NsxtHost, last.env.NSXT_HOSTNAME,
                           <<"127.0.0.1">>)).err = Nil

\* C12: host, username, password and insecure are each the explicit value, else
\* the environment variable, else the default (127.0.0.1, admin, password,
\* false); each fallback to a default adds exactly one warning; and the login is
\* made with the resolved values: the POST goes to the resolved host with the
\* resolved credentials, over a client that skips certificate verification
\* exactly when insecure resolved to true.
C12_ResolvedByPrecedence ==
    Resolves =>
       /\ last.out.values.hostname
             = Precedence(last.config.NsxtHost, last.env.NSXT_HOSTNAME, <<"127.0.0.1">>)
       /\ last.out.values.username
             = Precedence(last.config.NsxtUsername, last.env.NSXT_USERNAME, <<"admin">>)
       /\ last.out.values.password
             = Precedence(last.config.NsxtPassword, last.env.NSXT_PASSWORD, <<"password">>)
       /\ Warnings(last.out.diags, "host")
             = IF FellBack(last.config.NsxtHost, last.env.NSXT_HOSTNAME) THEN 1 ELSE 0
       /\ Warnings(last.out.diags, "username")
             = IF FellBack(last.config.NsxtUsername, last.env.NSXT_USERNAME) THEN 1 ELSE 0
       /\ Warnings(last.out.diags, "password")
             = IF FellBack(last.config.NsxtPassword, last.env.NSXT_PASSWORD) THEN 1 ELSE 0
       /\ Len(last.out.request) = 1
       /\ last.out.request[1].URL = last.out.values.hostname \o <<"/api/session/create">>
       /\ last.out.request[1].Body
             = EncodeCreds(last.out.values.username, last.out.values.password)
       /\ InsecureSkipVerify(last.out.loginClient)
             <=> InsecureWanted(last.config.NsxtInsecure, last.env.NSXT_INSECURE)

\* insecure is set to true in the configuration, and the login went out over a
\* client that verifies certificates
C12_Witness ==
    /\ Resolves
    /\ last.config.NsxtInsecure = KnownValue(TRUE)
    /\ Len(last.out.request) = 1
    /\ ~InsecureSkipVerify(last.out.loginClient)

\* the login POST was answered
LoginAnswered == last.op = "Configure" /\ last.out.response # NilResponse

\* C13: a login answered with a status other than 200 leaves an error diagnostic
\* and hands no client to resources and data sources; a client is handed over
\* only when the login was answered 200.
C13_LoginStatusDecides ==
    /\ (LoginAnswered /\ last.out.response.StatusCode # StatusOK) =>
          /\ ~last.out.panic
          /\ HasError(last.out.diags)
          /\ last.out.ResourceData = Nil
          /\ last.out.DataSourceData = Nil
    /\ (last.op = "Configure"
          /\ (last.out.ResourceData # Nil \/ last.out.DataSourceData # Nil)) =>
          last.out.response.StatusCode = StatusOK

\* the login was answered 401: Configure ended in a panic and left no error
C13_Witness ==
    /\ LoginAnswered
    /\ last.out.response.StatusCode = 401
    /\ last.out.panic
    /\ ~HasError(last.out.diags)

\* C14: the provider registers exactly one resource type, segment_port, and
\* exactly one data source, segment_ports.
C14_OneResourceOneDataSource ==
    last.op = "GetProviderSchema" =>
       /\ last.resources = <<ProviderTypeName \o <<"_segment_port">>>>
       /\ last.dataSources = <<ProviderTypeName \o <<"_segment_ports">>>>

\* the schema was asked for: no resource type, the one data source
C14_Witness ==
    /\ last.op = "GetProviderSchema"
    /\ last.resources = <<>>
    /\ last.dataSources = <<ProviderTypeName \o <<"_segment_ports">>>>

\* C22: once the provider's Configure has handed its data over and an adapter's
\* Configure has been called with it, that adapter holds a client: the resource
\* after its Configure, the data source after its own.
C22_AdaptersHoldAClient ==
    last.op = "AdapterConfigure" =>
       /\ last.adapter = "resource" => rClient # "nil"
       /\ last.adapter = "datasource" => dClient # "nil"

\* the resource's Configure was given the *http.Client the provider handed over
\* and holds no client
C22_Witness ==
    /\ last.op = "AdapterConfigure"
    /\ last.adapter = "resource"
    /\ last.handed.ResourceData = "*http.Client"
    /\ rClient = "nil"

====
